---- MODULE Spec2Model ----
(***************************************************************************)
(* Model of the CAT3626 LED dimmer driver (src/cat3626.c).                 *)
(*                                                                         *)
(* The chip has one enable register (ADDR_REGEN, one bit per LED) and      *)
(* three current registers (ADDR_REG_A..C), each shared by a pair of LEDs. *)
(* cat3626_brightness_set stores the requested level and schedules the     *)
(* LED's work item; the work item runs cat3626_setled, which does the      *)
(* register read-modify-write under data->update_lock.                     *)
(*                                                                         *)
(* Executors of cat3626_setled: the work item of LED i (executor i) and    *)
(* the thread running cat3626_configure (executor CFG), which calls        *)
(* cat3626_setled synchronously.                                           *)
(***************************************************************************)
EXTENDS Integers, FiniteSets

\* ---------------------------------------------------------------- constants
NUM_LEDS == 6
ADDR_REGEN == 3
LEVEL_SHIFT == 3
MAX_LEVEL == 39

\* ------------------------------------------------------------------- bounds
\* number of set_brightness calls in a behaviour of Spec
MaxCalls == 3
\* number of set_brightness calls in a behaviour of SpecBus
MaxBusCalls == 1
\* number of failing bus transfers in a behaviour of SpecBus
MaxBusErrors == 1
\* number of set_brightness calls in a behaviour of SpecLive
MaxLiveCalls == 2
\* number of set_brightness calls in a behaviour of SpecQ
MaxQCalls == 1
\* largest raw brightness value given to the quantization
MaxRaw == 330

Leds == 0..(NUM_LEDS - 1)
Pairs == 0..((NUM_LEDS \div 2) - 1)
CFG == NUM_LEDS
Executors == Leds \cup {CFG}
FREE == -1
NONE == -1

\* raw brightness values the host passes in the concurrent specification
RawValues == {0, 80, 255}
\* the LEDs the host calls set_brightness on in the concurrent specification:
\* both LEDs of the last pair and one LED of another pair
ActiveLeds == {3, 4, 5}
\* values the enable register may hold when the driver is bound
InitEnables == {21, 42}
\* errno values a failing bus transfer returns (EIO, ENXIO)
BusErrnos == {5, 6}

VARIABLES
    registered,   \* registered[i]: leds[i].ldev is registered with the LED class
    level,        \* level[i]: leds[i].present_reg_value
    pending,      \* pending[i]: queued executions of leds[i].work
    id,           \* id[i]: leds[i].id
    i2c_reg,      \* i2c_reg[i]: leds[i].i2c_reg
    partner,      \* partner[i]: index of leds[i].partner, NONE for NULL
    update_lock,  \* data->update_lock: the executor holding it, or FREE
    enable,       \* chip register ADDR_REGEN
    cur,          \* cur[k]: chip register ADDR_REG_A + k
    pc,           \* pc[e]: position of executor e in cat3626_setled
    reg,          \* reg[e]: local 'reg' of cat3626_setled
    toset,        \* toset[e]: local 'toset' of cat3626_setled
    cfgPc,        \* position of cat3626_configure
    cfgI,         \* loop variable i of cat3626_configure
    rmPc,         \* position of cat3626_remove
    destroyed,    \* slots cat3626_destroy_devices has acted on
    calls,        \* history: number of set_brightness calls so far
    busErrs,      \* history: number of failed bus transfers so far
    err,          \* history: err[e]: "read"/"write" failure in e's current setled
    seen,         \* history: seen[e]: present_reg_value read at line 112
    wrote,        \* history: wrote[e]: value e's current setled wrote at line 125
    brightness,   \* brightness[i]: leds[i].ldev.brightness, the raw value the LED
                  \*          class last passed to brightness_set
    lastNz,       \* history: lastNz[k]: value written to register k by the last
                  \*          completed setled that wrote it
    queuedCalls,  \* history: queuedCalls[i]: set_brightness calls on LED i since
                  \*          leds[i].work last started to run (or was initialised)
    afterErr,     \* history: <<i, 1>> when the last setled to return after a
                  \*          failed bus transfer was one of LED i, <<i, 2>> once
                  \*          brightness_set was called on LED i after that;
                  \*          <<NONE, 0>> before any failure
    quiet         \* history: <<i, n>>: the last setled to read the enable register
                  \*          was one of LED i, with no set_brightness on LED i and
                  \*          no failed transfer since the read; n = 2 when the
                  \*          setled to read it before that was one of LED i too,
                  \*          under the same conditions, else n = 1; <<NONE, 0>>
                  \*          otherwise

vars == <<registered, level, pending, id, i2c_reg, partner, update_lock, enable,
          cur, pc, reg, toset, cfgPc, cfgI, rmPc, destroyed, calls, busErrs, err,
          seen, wrote, brightness, lastNz, queuedCalls, afterErr,
          quiet>>

chipVars == <<enable, cur>>
ledVars == <<id, i2c_reg, partner>>
setledVars == <<pc, reg, toset, err, seen, wrote>>
lifeVars == <<cfgPc, cfgI, rmPc, destroyed>>

\* ------------------------------------------------------------- bit helpers
Pow2(n) == 2 ^ n
Bit(b, n) == (b \div Pow2(n)) % 2
SetBit(b, n) == IF Bit(b, n) = 1 THEN b ELSE b + Pow2(n)
ClearBit(b, n) == IF Bit(b, n) = 1 THEN b - Pow2(n) ELSE b
\* conversion of an int to (unsigned) char: the low 8 bits
ToChar(x) == x % 256

\* the LED an executor works on
ChanOf(e) == IF e = CFG THEN cfgI ELSE e

\* ------------------------------------------------- cat3626_brightness_set
\* a variant without the clamp of lines 138-139
Quantize_noclamp(v) == v \div Pow2(LEVEL_SHIFT)

\* lines 136-139
Quantize(v) ==
    LET shifted == v \div Pow2(LEVEL_SHIFT)
    IN  IF shifted > MAX_LEVEL THEN MAX_LEVEL ELSE shifted

\* schedule_work: queue the work item unless it is already pending
ScheduleWork(ch) ==
    IF pending[ch] = 0 THEN [pending EXCEPT ![ch] = 1] ELSE pending

\* a variant that keeps the first value while the work item is pending
BrightnessSet_first(ch, v) ==
    /\ registered[ch]
    /\ level' = IF pending[ch] = 0 THEN [level EXCEPT ![ch] = Quantize(v)] ELSE level
    /\ pending' = ScheduleWork(ch)
    /\ calls' = calls + 1
    /\ brightness' = [brightness EXCEPT ![ch] = v]
    /\ queuedCalls' = [queuedCalls EXCEPT ![ch] = queuedCalls[ch] + 1]
    /\ afterErr' = IF afterErr = <<ch, 1>> THEN <<ch, 2>> ELSE afterErr
    /\ quiet' = IF quiet[1] = ch THEN <<NONE, 0>> ELSE quiet
    /\ UNCHANGED <<registered, ledVars, update_lock, chipVars, setledVars,
                   lifeVars, busErrs, lastNz>>

\* a variant that does not queue the work item while it is running
BrightnessSet_skipbusy(ch, v) ==
    /\ registered[ch]
    /\ level' = [level EXCEPT ![ch] = Quantize(v)]
    /\ pending' = IF pc[ch] = "idle" THEN ScheduleWork(ch) ELSE pending
    /\ calls' = calls + 1
    /\ brightness' = [brightness EXCEPT ![ch] = v]
    /\ queuedCalls' = [queuedCalls EXCEPT ![ch] = queuedCalls[ch] + 1]
    /\ afterErr' = IF afterErr = <<ch, 1>> THEN <<ch, 2>> ELSE afterErr
    /\ quiet' = IF quiet[1] = ch THEN <<NONE, 0>> ELSE quiet
    /\ UNCHANGED <<registered, ledVars, update_lock, chipVars, setledVars,
                   lifeVars, busErrs, lastNz>>

\* a variant that updates the enable register itself, under update_lock
BrightnessSet_sync(ch, v) ==
    /\ registered[ch]
    /\ update_lock = FREE
    /\ level' = [level EXCEPT ![ch] = Quantize(v)]
    /\ enable' = IF Quantize(v) = 0 THEN ClearBit(enable, id[ch])
                                    ELSE SetBit(enable, id[ch])
    /\ pending' = ScheduleWork(ch)
    /\ calls' = calls + 1
    /\ brightness' = [brightness EXCEPT ![ch] = v]
    /\ queuedCalls' = [queuedCalls EXCEPT ![ch] = queuedCalls[ch] + 1]
    /\ afterErr' = IF afterErr = <<ch, 1>> THEN <<ch, 2>> ELSE afterErr
    /\ quiet' = IF quiet[1] = ch THEN <<NONE, 0>> ELSE quiet
    /\ UNCHANGED <<registered, ledVars, update_lock, cur, setledVars,
                   lifeVars, busErrs, lastNz>>

\* lines 130-143
BrightnessSet(ch, v) ==
    /\ registered[ch]
    /\ level' = [level EXCEPT ![ch] = Quantize(v)]
    /\ pending' = ScheduleWork(ch)
    /\ calls' = calls + 1
    /\ brightness' = [brightness EXCEPT ![ch] = v]
    /\ queuedCalls' = [queuedCalls EXCEPT ![ch] = queuedCalls[ch] + 1]
    /\ afterErr' = IF afterErr = <<ch, 1>> THEN <<ch, 2>> ELSE afterErr
    /\ quiet' = IF quiet[1] = ch THEN <<NONE, 0>> ELSE quiet
    /\ UNCHANGED <<registered, ledVars, update_lock, chipVars, setledVars,
                   lifeVars, busErrs, lastNz>>

\* ------------------------------------------------------- cat3626_led_work
LedWork(ch) ==
    /\ pending[ch] > 0
    /\ pc[ch] = "idle"
    /\ pending' = [pending EXCEPT ![ch] = pending[ch] - 1]
    /\ pc' = [pc EXCEPT ![ch] = "lock"]
    /\ queuedCalls' = [queuedCalls EXCEPT ![ch] = 0]
    /\ UNCHANGED <<registered, level, ledVars, update_lock, chipVars, reg, toset,
                   err, seen, wrote, lifeVars, calls, busErrs, brightness, lastNz,
                   afterErr, quiet>>

\* --------------------------------------------------------- cat3626_setled
\* a variant that does not wait for the mutex
MutexLock_nolock(e) ==
    /\ pc[e] = "lock"
    /\ update_lock' = e
    /\ pc' = [pc EXCEPT ![e] = "read"]
    /\ UNCHANGED <<registered, level, pending, ledVars, chipVars, reg, toset, err,
                   seen, wrote, lifeVars, calls, busErrs, brightness, lastNz,
                   queuedCalls,
                   afterErr, quiet>>

\* line 105
MutexLock(e) ==
    /\ pc[e] = "lock"
    /\ update_lock = FREE
    /\ update_lock' = e
    /\ pc' = [pc EXCEPT ![e] = "read"]
    /\ UNCHANGED <<registered, level, pending, ledVars, chipVars, reg, toset, err,
                   seen, wrote, lifeVars, calls, busErrs, brightness, lastNz,
                   queuedCalls,
                   afterErr, quiet>>

\* a variant with the two branches of lines 112-117 exchanged
ComputeToset_swapped(byte, ch) ==
    IF level[ch] = 0 THEN SetBit(byte, id[ch]) ELSE ClearBit(byte, id[ch])

\* a variant that flips the bit (^=) instead of setting it (|=)
ComputeToset_toggle(byte, ch) ==
    IF level[ch] = 0 THEN ClearBit(byte, id[ch])
    ELSE IF Bit(byte, id[ch]) = 1 THEN ClearBit(byte, id[ch])
                                  ELSE SetBit(byte, id[ch])

\* lines 109-117: toset from the byte read and the LED's present_reg_value
ComputeToset(byte, ch) ==
    IF level[ch] = 0 THEN ClearBit(byte, id[ch]) ELSE SetBit(byte, id[ch])

\* lines 108-117, the read succeeds
ReadEnable(e) ==
    /\ pc[e] = "read"
    /\ reg' = [reg EXCEPT ![e] = ToChar(enable)]
    /\ toset' = [toset EXCEPT ![e] = ComputeToset(ToChar(enable), ChanOf(e))]
    /\ seen' = [seen EXCEPT ![e] = level[ChanOf(e)]]
    /\ pc' = [pc EXCEPT ![e] = "write"]
    /\ quiet' = <<ChanOf(e), IF quiet[1] = ChanOf(e) THEN 2 ELSE 1>>
    /\ UNCHANGED <<registered, level, pending, ledVars, update_lock, chipVars, err,
                   wrote, lifeVars, calls, busErrs, brightness, lastNz,
                   queuedCalls, afterErr>>

\* lines 108-117, the read fails: i2c_smbus_read_byte_data returns -errno,
\* which is stored in the char 'reg' unchecked
ReadEnableFail(e, errno) ==
    /\ pc[e] = "read"
    /\ busErrs < MaxBusErrors
    /\ busErrs' = busErrs + 1
    /\ err' = [err EXCEPT ![e] = "read"]
    /\ reg' = [reg EXCEPT ![e] = ToChar(-errno)]
    /\ toset' = [toset EXCEPT ![e] = ComputeToset(ToChar(-errno), ChanOf(e))]
    /\ seen' = [seen EXCEPT ![e] = level[ChanOf(e)]]
    /\ pc' = [pc EXCEPT ![e] = "write"]
    /\ quiet' = <<NONE, 0>>
    /\ UNCHANGED <<registered, level, pending, ledVars, update_lock, chipVars,
                   wrote, lifeVars, calls, brightness, lastNz,
                   queuedCalls, afterErr>>

\* line 124: the test that decides whether line 125 runs
AfterEnable(e) == IF level[ChanOf(e)] > 0 THEN "cur" ELSE "unlock"

\* lines 120-124, the write (if any) succeeds
WriteEnable(e) ==
    /\ pc[e] = "write"
    /\ enable' = IF toset[e] # reg[e] THEN toset[e] ELSE enable
    /\ pc' = [pc EXCEPT ![e] = AfterEnable(e)]
    /\ UNCHANGED <<registered, level, pending, ledVars, update_lock, cur, reg,
                   toset, err, seen, wrote, lifeVars, calls, busErrs, brightness,
                   lastNz,
                   queuedCalls,
                   afterErr, quiet>>

\* a variant that returns on the failed write without mutex_unlock
WriteEnableFail_return(e) ==
    /\ pc[e] = "write"
    /\ toset[e] # reg[e]
    /\ busErrs < MaxBusErrors
    /\ busErrs' = busErrs + 1
    /\ err' = [err EXCEPT ![e] = IF err[e] = "none" THEN "write" ELSE err[e]]
    /\ pc' = [pc EXCEPT ![e] = "idle"]
    /\ quiet' = <<NONE, 0>>
    /\ UNCHANGED <<registered, level, pending, ledVars, update_lock, chipVars, reg,
                   toset, seen, wrote, lifeVars, calls, brightness, lastNz,
                   queuedCalls, afterErr>>

\* lines 120-124, the write fails and leaves the register alone
WriteEnableFail(e) ==
    /\ pc[e] = "write"
    /\ toset[e] # reg[e]
    /\ busErrs < MaxBusErrors
    /\ busErrs' = busErrs + 1
    /\ err' = [err EXCEPT ![e] = IF err[e] = "none" THEN "write" ELSE err[e]]
    /\ pc' = [pc EXCEPT ![e] = AfterEnable(e)]
    /\ quiet' = <<NONE, 0>>
    /\ UNCHANGED <<registered, level, pending, ledVars, update_lock, chipVars, reg,
                   toset, seen, wrote, lifeVars, calls, brightness, lastNz,
                   queuedCalls, afterErr>>

\* line 125, the write succeeds
WriteCurrent(e) ==
    /\ pc[e] = "cur"
    /\ cur' = [cur EXCEPT ![i2c_reg[ChanOf(e)]] = ToChar(level[ChanOf(e)])]
    /\ wrote' = [wrote EXCEPT ![e] = ToChar(level[ChanOf(e)])]
    /\ pc' = [pc EXCEPT ![e] = "unlock"]
    /\ UNCHANGED <<registered, level, pending, ledVars, update_lock, enable, reg,
                   toset, err, seen, lifeVars, calls, busErrs, brightness, lastNz,
                   queuedCalls,
                   afterErr, quiet>>

\* line 125, the write fails
WriteCurrentFail(e) ==
    /\ pc[e] = "cur"
    /\ busErrs < MaxBusErrors
    /\ busErrs' = busErrs + 1
    /\ err' = [err EXCEPT ![e] = IF err[e] = "none" THEN "write" ELSE err[e]]
    /\ pc' = [pc EXCEPT ![e] = "unlock"]
    /\ quiet' = <<NONE, 0>>
    /\ UNCHANGED <<registered, level, pending, ledVars, update_lock, chipVars, reg,
                   toset, seen, wrote, lifeVars, calls, brightness, lastNz,
                   queuedCalls, afterErr>>

\* a variant that queues the work item again when a bus transfer failed
MutexUnlock_retry(e) ==
    /\ pc[e] = "unlock"
    /\ update_lock' = FREE
    /\ pc' = [pc EXCEPT ![e] = "idle"]
    /\ reg' = [reg EXCEPT ![e] = 0]
    /\ toset' = [toset EXCEPT ![e] = 0]
    /\ err' = [err EXCEPT ![e] = "none"]
    /\ seen' = [seen EXCEPT ![e] = NONE]
    /\ wrote' = [wrote EXCEPT ![e] = NONE]
    /\ lastNz' = IF wrote[e] # NONE
                 THEN [lastNz EXCEPT ![ChanOf(e) \div 2] = wrote[e]]
                 ELSE lastNz
    /\ afterErr' = IF err[e] # "none" THEN <<ChanOf(e), 1>> ELSE afterErr
    /\ pending' = IF err[e] # "none" THEN ScheduleWork(ChanOf(e)) ELSE pending
    /\ UNCHANGED <<registered, level, ledVars, chipVars, lifeVars, calls,
                   busErrs, brightness, queuedCalls, quiet>>

\* line 127 and the return
MutexUnlock(e) ==
    /\ pc[e] = "unlock"
    /\ update_lock' = FREE
    /\ pc' = [pc EXCEPT ![e] = "idle"]
    /\ reg' = [reg EXCEPT ![e] = 0]
    /\ toset' = [toset EXCEPT ![e] = 0]
    /\ err' = [err EXCEPT ![e] = "none"]
    /\ seen' = [seen EXCEPT ![e] = NONE]
    /\ wrote' = [wrote EXCEPT ![e] = NONE]
    /\ lastNz' = IF wrote[e] # NONE
                 THEN [lastNz EXCEPT ![ChanOf(e) \div 2] = wrote[e]]
                 ELSE lastNz
    /\ afterErr' = IF err[e] # "none" THEN <<ChanOf(e), 1>> ELSE afterErr
    /\ UNCHANGED <<registered, level, pending, ledVars, chipVars, lifeVars, calls,
                   busErrs, brightness, queuedCalls, quiet>>

\* ------------------------------------------------ cat3626_destroy_devices
\* Acts on the single slot n_devs.  cancel_work_sync removes a queued
\* execution and waits for a running one.  A slot outside leds[] is memory
\* that is no LED: nothing of leds[0..5] changes.
DestroyDevices(n) ==
    /\ n \in Leds => pc[n] = "idle"
    /\ registered' = [i \in Leds |-> IF i = n THEN FALSE ELSE registered[i]]
    /\ pending' = [i \in Leds |-> IF i = n THEN 0 ELSE pending[i]]
    /\ queuedCalls' = [i \in Leds |-> IF i = n THEN 0 ELSE queuedCalls[i]]
    /\ destroyed' = destroyed \cup {n}

\* ------------------------------------------------------ cat3626_configure
\* a variant that derives the register index as i % 3 instead of i >> 1
CfgPair_mod3 ==
    /\ cfgPc = "pair"
    /\ partner' = [i \in Leds |-> IF i % 2 = 0 THEN i + 1 ELSE i - 1]
    /\ i2c_reg' = [i \in Leds |-> i % 3]
    /\ cfgPc' = "reg"
    /\ cfgI' = 0
    /\ UNCHANGED <<registered, level, pending, id, update_lock, chipVars,
                   setledVars, rmPc, destroyed, calls, busErrs, brightness, lastNz,
                   queuedCalls,
                   afterErr, quiet>>

\* lines 171-176
CfgPair ==
    /\ cfgPc = "pair"
    /\ partner' = [i \in Leds |-> IF i % 2 = 0 THEN i + 1 ELSE i - 1]
    /\ i2c_reg' = [i \in Leds |-> i \div 2]
    /\ cfgPc' = "reg"
    /\ cfgI' = 0
    /\ UNCHANGED <<registered, level, pending, id, update_lock, chipVars,
                   setledVars, rmPc, destroyed, calls, busErrs, brightness, lastNz,
                   queuedCalls,
                   afterErr, quiet>>

\* a variant that leaves out the call of cat3626_setled at line 198
CfgRegister_noapply ==
    /\ cfgPc = "reg"
    /\ id' = [id EXCEPT ![cfgI] = cfgI]
    /\ pending' = [pending EXCEPT ![cfgI] = 0]
    /\ registered' = [registered EXCEPT ![cfgI] = TRUE]
    /\ cfgPc' = "setled"
    /\ queuedCalls' = [queuedCalls EXCEPT ![cfgI] = 0]
    /\ UNCHANGED <<level, i2c_reg, partner, update_lock, chipVars, setledVars,
                   cfgI, rmPc, destroyed, calls, busErrs, brightness, lastNz,
                   afterErr, quiet>>

\* lines 179-198, led_classdev_register succeeds: cat3626_setled is entered
CfgRegister ==
    /\ cfgPc = "reg"
    /\ id' = [id EXCEPT ![cfgI] = cfgI]
    /\ pending' = [pending EXCEPT ![cfgI] = 0]
    /\ registered' = [registered EXCEPT ![cfgI] = TRUE]
    /\ cfgPc' = "setled"
    /\ pc' = [pc EXCEPT ![CFG] = "lock"]
    /\ queuedCalls' = [queuedCalls EXCEPT ![cfgI] = 0]
    /\ UNCHANGED <<level, i2c_reg, partner, update_lock, chipVars, reg, toset, err,
                   seen, wrote, cfgI, rmPc, destroyed, calls, busErrs, brightness,
                   lastNz,
                   afterErr, quiet>>

\* lines 179-196, led_classdev_register fails
CfgRegisterFail ==
    /\ cfgPc = "reg"
    /\ id' = [id EXCEPT ![cfgI] = cfgI]
    /\ pending' = [pending EXCEPT ![cfgI] = 0]
    /\ cfgPc' = "exit"
    /\ queuedCalls' = [queuedCalls EXCEPT ![cfgI] = 0]
    /\ UNCHANGED <<registered, level, i2c_reg, partner, update_lock, chipVars,
                   setledVars, cfgI, rmPc, destroyed, calls, busErrs, brightness,
                   lastNz,
                   afterErr, quiet>>

\* line 198 has returned: the loop step and test of line 178, or line 201
CfgLoop ==
    /\ cfgPc = "setled"
    /\ pc[CFG] = "idle"
    /\ cfgI' = cfgI + 1
    /\ cfgPc' = IF cfgI + 1 < NUM_LEDS THEN "reg" ELSE "done"
    /\ UNCHANGED <<registered, level, pending, ledVars, update_lock, chipVars,
                   setledVars, rmPc, destroyed, calls, busErrs, brightness, lastNz,
                   queuedCalls,
                   afterErr, quiet>>

\* lines 203-205
CfgExit ==
    /\ cfgPc = "exit"
    /\ DestroyDevices(cfgI)
    /\ cfgPc' = "failed"
    /\ UNCHANGED <<level, ledVars, update_lock, chipVars, setledVars, cfgI, rmPc,
                   calls, busErrs, brightness, lastNz,
                   afterErr, quiet>>

\* --------------------------------------------------------- cat3626_remove
\* lines 236-246: the slot passed is num_leds, one past the end of leds[].
\* The access is out of bounds: the call either returns or faults.
Remove ==
    /\ cfgPc = "done"
    /\ rmPc = "none"
    /\ DestroyDevices(NUM_LEDS)
    /\ rmPc' \in {"returned", "oops"}
    /\ UNCHANGED <<level, ledVars, update_lock, chipVars, setledVars, cfgPc, cfgI,
                   calls, busErrs, brightness, lastNz,
                   afterErr, quiet>>

\* ------------------------------------------------------------------- Init
\* cat3626_probe, lines 222-231: data is zeroed, the mutex initialised
Init ==
    /\ registered = [i \in Leds |-> FALSE]
    /\ level = [i \in Leds |-> 0]
    /\ pending = [i \in Leds |-> 0]
    /\ id = [i \in Leds |-> 0]
    /\ i2c_reg = [i \in Leds |-> 0]
    /\ partner = [i \in Leds |-> NONE]
    /\ update_lock = FREE
    /\ enable \in InitEnables
    /\ cur = [k \in Pairs |-> 0]
    /\ pc = [e \in Executors |-> "idle"]
    /\ reg = [e \in Executors |-> 0]
    /\ toset = [e \in Executors |-> 0]
    /\ cfgPc = "pair"
    /\ cfgI = 0
    /\ rmPc = "none"
    /\ destroyed = {}
    /\ calls = 0
    /\ busErrs = 0
    /\ err = [e \in Executors |-> "none"]
    /\ seen = [e \in Executors |-> NONE]
    /\ wrote = [e \in Executors |-> NONE]
    /\ brightness = [i \in Leds |-> 0]
    /\ queuedCalls = [i \in Leds |-> 0]
    /\ afterErr = <<NONE, 0>>
    /\ quiet = <<NONE, 0>>
    /\ lastNz = [k \in Pairs |-> NONE]

\* cat3626_setled with every bus transfer succeeding
Setled(e) ==
    \/ MutexLock(e)
    \/ ReadEnable(e)
    \/ WriteEnable(e)
    \/ WriteCurrent(e)
    \/ MutexUnlock(e)

\* a bus transfer of cat3626_setled failing
SetledFail(e) ==
    \/ \E errno \in BusErrnos : ReadEnableFail(e, errno)
    \/ WriteEnableFail(e)
    \/ WriteCurrentFail(e)

\* the LED class calling brightness_set, at most n times in a behaviour
HostCall(n) ==
    /\ calls < n
    /\ \E ch \in ActiveLeds, v \in RawValues : BrightnessSet(ch, v)

Workers ==
    \/ \E ch \in Leds : LedWork(ch)
    \/ \E e \in Executors : Setled(e)

Lifecycle ==
    \/ CfgPair
    \/ CfgRegister
    \/ CfgRegisterFail
    \/ CfgLoop
    \/ CfgExit
    \/ Remove

\* the driver on a bus whose transfers all succeed
Next ==
    \/ HostCall(MaxCalls)
    \/ Workers
    \/ Lifecycle

Spec == Init /\ [][Next]_vars

\* the driver on a bus whose transfers may fail
NextBus ==
    \/ HostCall(MaxBusCalls)
    \/ Workers
    \/ \E e \in Executors : SetledFail(e)
    \/ Lifecycle

SpecBus == Init /\ [][NextBus]_vars

\* the driver under fair scheduling: the workqueue runs every queued work
\* item, a thread that can take a step of cat3626_setled or of
\* cat3626_configure eventually takes it
NextLive ==
    \/ HostCall(MaxLiveCalls)
    \/ Workers
    \/ Lifecycle

Fairness ==
    /\ \A ch \in Leds : WF_vars(LedWork(ch))
    /\ \A e \in Executors : WF_vars(Setled(e))
    /\ WF_vars(CfgPair)
    /\ WF_vars(CfgRegister \/ CfgRegisterFail)
    /\ WF_vars(CfgLoop)
    /\ WF_vars(CfgExit)

SpecLive == Init /\ [][NextLive]_vars /\ Fairness

\* the driver with failing bus transfers under the same fair scheduling;
\* brightness_set is called on one LED, the first one that shares the
\* configuration with two later LEDs, with the lowest and the highest value
BusLiveLeds == {3}
BusLiveRawValues == {0, 255}
NextBusLive ==
    \/ /\ calls < MaxBusCalls
       /\ \E ch \in BusLiveLeds, v \in BusLiveRawValues : BrightnessSet(ch, v)
    \/ Workers
    \/ \E e \in Executors : SetledFail(e)
    \/ Lifecycle

SpecBusLive == Init /\ [][NextBusLive]_vars /\ Fairness

\* the quantization of cat3626_brightness_set on every raw value: the state
\* cat3626_configure leaves on success when nothing else ran, then calls of
\* brightness_set with any raw value up to MaxRaw
Configured ==
    /\ registered = [i \in Leds |-> TRUE]
    /\ level = [i \in Leds |-> 0]
    /\ pending = [i \in Leds |-> 0]
    /\ id = [i \in Leds |-> i]
    /\ i2c_reg = [i \in Leds |-> i \div 2]
    /\ partner = [i \in Leds |-> IF i % 2 = 0 THEN i + 1 ELSE i - 1]
    /\ update_lock = FREE
    /\ enable = 0
    /\ cur = [k \in Pairs |-> 0]
    /\ pc = [e \in Executors |-> "idle"]
    /\ reg = [e \in Executors |-> 0]
    /\ toset = [e \in Executors |-> 0]
    /\ cfgPc = "done"
    /\ cfgI = NUM_LEDS
    /\ rmPc = "none"
    /\ destroyed = {}
    /\ calls = 0
    /\ busErrs = 0
    /\ err = [e \in Executors |-> "none"]
    /\ seen = [e \in Executors |-> NONE]
    /\ wrote = [e \in Executors |-> NONE]
    /\ brightness = [i \in Leds |-> 0]
    /\ lastNz = [k \in Pairs |-> NONE]
    /\ queuedCalls = [i \in Leds |-> 0]
    /\ afterErr = <<NONE, 0>>
    /\ quiet = <<NONE, 0>>

NextQ ==
    /\ calls < MaxQCalls
    /\ \E ch \in ActiveLeds, v \in 0..MaxRaw : BrightnessSet(ch, v)

SpecQ == Configured /\ [][NextQ]_vars

TypeOK ==
    /\ registered \in [Leds -> BOOLEAN]
    /\ level \in [Leds -> 0..MAX_LEVEL]
    /\ pending \in [Leds -> 0..1]
    /\ update_lock \in Executors \cup {FREE}
    /\ enable \in 0..255
    /\ cur \in [Pairs -> 0..255]
    /\ cfgI \in 0..NUM_LEDS

\* ------------------------------------------------------------ properties
InCritical(e) == pc[e] \in {"read", "write", "cur", "unlock"}
InFlight(e) == pc[e] # "idle"
Quiescent ==
    /\ \A ch \in Leds : pending[ch] = 0
    /\ \A e \in Executors : pc[e] = "idle"
EnableBitOn(ch) == Bit(enable, ch) = 1

\* C1 as stated: when cat3626_setled(ch) has done its last bus transfer without
\* a bus error and is about to return, bit ch of the enable register is 1 iff
\* present_reg_value of ch is greater than 0, also with brightness_set calls
\* running concurrently.
C1_EnableBitAtCompletion ==
    \A e \in Executors :
        (pc[e] = "unlock" /\ err[e] = "none")
            => (EnableBitOn(ChanOf(e)) <=> level[ChanOf(e)] > 0)

\* C1 amended: when cat3626_setled(ch) is about to return without a bus error,
\* bit ch of the enable register is 1 iff the present_reg_value it read at
\* line 112 was greater than 0; when present_reg_value differs from the value
\* read (a brightness_set ran since), the work item of ch is queued or running.
C1_EnableBitOfLevelRead ==
    \A e \in Executors :
        (pc[e] = "unlock" /\ err[e] = "none")
            => /\ EnableBitOn(ChanOf(e)) <=> seen[e] > 0
               /\ level[ChanOf(e)] # seen[e]
                    => \/ pending[ChanOf(e)] > 0
                       \/ (e = CFG /\ InFlight(ChanOf(e)))

\* C1 witness: a setled about to return that read a nonzero level, with the
\* level set to 0 by a concurrent brightness_set since
C1_Witness ==
    \E e \in Executors :
        /\ pc[e] = "unlock"
        /\ seen[e] > 0
        /\ level[ChanOf(e)] = 0
        /\ EnableBitOn(ChanOf(e))

Consistent ==
    \A i \in Leds :
        /\ level[i] = Quantize(brightness[i])
        /\ EnableBitOn(i) <=> level[i] > 0
Bound == cfgPc = "done" /\ rmPc = "none"

\* C2: under fair scheduling and with no bus errors, while the chip stays bound
\* the system reaches, and stays in, a state with no work queued or running in
\* which every LED's present_reg_value is the quantization of the last value
\* given to brightness_set and its enable bit is 1 iff that level is > 0.
C2_EventuallyConsistent == <>[](Bound => (Quiescent /\ Consistent))

\* C2 witness: a bound, quiescent, consistent state after all the calls, with
\* an LED on
C2_Witness ==
    /\ Bound
    /\ Quiescent
    /\ Consistent
    /\ calls = MaxLiveCalls
    /\ \E i \in Leds : level[i] > 0

MutualExclusion ==
    \A e1, e2 \in Executors :
        InCritical(e1) /\ InCritical(e2) => e1 = e2 /\ update_lock = e1
OnlyOwnBit ==
    \A b \in 0..7 :
        Bit(enable', b) # Bit(enable, b)
            => \E e \in Executors :
                 /\ pc[e] = "write"
                 /\ pc'[e] # "write"
                 /\ ChanOf(e) = b

\* C3: the steps of cat3626_setled between mutex_lock and mutex_unlock of one
\* executor never interleave with those of another, and a step changes a bit
\* of the enable register only as the enable write of the setled of that LED.
C3_Atomic == [](MutualExclusion) /\ [][OnlyOwnBit]_vars

\* C3 witness: one setled inside the locked region that has read the enable
\* register, and the setled of another LED waiting for the mutex
C3_Witness ==
    \E e1, e2 \in Executors :
        /\ pc[e1] = "write"
        /\ pc[e2] = "lock"
        /\ ChanOf(e1) # ChanOf(e2)
        /\ toset[e1] # reg[e1]

\* C4: brightness_set stores min(raw >> 3, 39): the level is in 0..39, it is
\* the raw value without its low 3 bits when that is at most 39, and 39 from
\* raw value 320 on.
C4_Quantization ==
    \A ch \in Leds :
        /\ level[ch] \in 0..39
        /\ brightness[ch] < 320
             => (8 * level[ch] <= brightness[ch] /\ brightness[ch] < 8 * level[ch] + 8)
        /\ brightness[ch] >= 320 => level[ch] = 39

\* C4 witness: raw value 255 stored as level 31
C4_Witness == \E ch \in Leds : brightness[ch] = 255 /\ level[ch] = 31

IsBrightnessSetStep == calls' # calls
BrightnessSetFrame ==
    IsBrightnessSetStep =>
        /\ UNCHANGED <<enable, cur, update_lock, pc, reg, toset, registered,
                       id, i2c_reg, partner, cfgPc, cfgI, rmPc>>
        /\ \E ch \in Leds :
             /\ \A o \in Leds \ {ch} :
                  /\ level'[o] = level[o]
                  /\ pending'[o] = pending[o]
                  /\ brightness'[o] = brightness[o]
             /\ level'[ch] = Quantize(brightness'[ch])
             /\ pending'[ch] = 1
NeverBlocks ==
    \A ch \in Leds : registered[ch] => ENABLED BrightnessSet(ch, 0)

\* C5: a brightness_set call is enabled whenever the LED is registered, also
\* while update_lock is held, and its step changes nothing but the LED's
\* present_reg_value and the pending state of its work item: no register, not
\* the mutex, no position or local of any setled, no other LED's level.
C5_FireAndDeferred == [](NeverBlocks) /\ [][BrightnessSetFrame]_vars

\* C5 witness: a brightness_set has run while the setled of the same LED held
\* update_lock after reading the level
C5_Witness ==
    \E e \in Leds :
        /\ InCritical(e)
        /\ update_lock = e
        /\ seen[e] # NONE
        /\ seen[e] # level[e]
        /\ pending[e] = 1

CoalescedState ==
    \A ch \in Leds :
        /\ pending[ch] <= 1
        /\ queuedCalls[ch] >= 2
             => (pending[ch] = 1 /\ level[ch] = Quantize(brightness[ch]))
CoalescedStep ==
    \A ch \in Leds :
        /\ (queuedCalls[ch] >= 2 /\ pc[ch] = "idle" /\ pc'[ch] # "idle")
             => (pending'[ch] = 0 /\ queuedCalls'[ch] = 0)
        /\ (pc[ch] = "read" /\ pc'[ch] = "write")
             => seen'[ch] = Quantize(brightness[ch])

\* C6: the work item of an LED is queued at most once; after two or more
\* brightness_set calls on an LED with no start of its work item in between,
\* exactly one execution is queued and present_reg_value is the quantization
\* of the last value; when the work item starts, no further execution stays
\* queued, and the level its setled reads is the quantization of the last value.
C6_Coalescing == [](CoalescedState) /\ [][CoalescedStep]_vars

\* C6 witness: two calls on an LED while its work item had not started, the
\* last with raw value 255: one execution queued, level 31 stored
C6_Witness ==
    \E ch \in Leds :
        /\ queuedCalls[ch] = 2
        /\ brightness[ch] = 255
        /\ pending[ch] = 1
        /\ level[ch] = 31

CurrentHolds ==
    \A k \in Pairs :
        lastNz[k] # NONE
            => \/ cur[k] = lastNz[k]
               \/ \E e \in Executors :
                    /\ wrote[e] # NONE
                    /\ ChanOf(e) \div 2 = k
                    /\ cur[k] = wrote[e]
CurrentStep ==
    \A k \in Pairs :
        cur'[k] # cur[k]
            => \E e \in Executors :
                 /\ pc[e] = "cur"
                 /\ pc'[e] = "unlock"
                 /\ ChanOf(e) \div 2 = k
                 /\ cur'[k] = level[ChanOf(e)]

\* C7: with no bus errors, once a setled that wrote current register k has
\* completed, register k holds the value written by the last such setled (or
\* by the one now inside the locked region); a step changes register k only as
\* the current write of a setled of LED 2k or 2k+1 that found its level
\* nonzero, and the value is that LED's present_reg_value.
C7_SharedCurrent == [](CurrentHolds) /\ [][CurrentStep]_vars

\* C7 witness: both LEDs of pair 2 on at different levels, everything applied,
\* and the register holds the level of the one applied last
C7_Witness ==
    /\ Quiescent
    /\ level[4] = 10
    /\ level[5] = 31
    /\ lastNz[2] = 31
    /\ cur[2] = 31
    /\ EnableBitOn(4)
    /\ EnableBitOn(5)

\* C8: once cat3626_remove has returned, no work item of the chip is queued
\* and no cat3626_setled is running.
C8_TeardownSafety ==
    rmPc = "returned"
        => \A ch \in Leds : pending[ch] = 0 /\ ~InFlight(ch)

\* C9: once cat3626_configure has returned an error, no LED is registered and
\* no work item is queued or running.
C9_Rollback ==
    cfgPc = "failed"
        => \A ch \in Leds : ~registered[ch] /\ pending[ch] = 0 /\ ~InFlight(ch)

\* C10: after the read of the enable register has failed in a cat3626_setled,
\* no step changes the enable register or a current register until that
\* setled has returned.
C10_ReadFailureFatal ==
    [][(\E e \in Executors : err[e] = "read") => UNCHANGED <<enable, cur>>]_vars

IsBusErrorStep == busErrs' # busErrs
NoRetryStep ==
    /\ IsBusErrorStep => level' = level /\ pending' = pending
    /\ \A e \in Executors :
         (err[e] # "none" /\ pc[e] = "unlock" /\ pc'[e] = "idle")
             => level' = level /\ pending' = pending
    /\ \A ch \in Leds :
         /\ pending'[ch] > pending[ch]
              => IsBrightnessSetStep /\ queuedCalls'[ch] = queuedCalls[ch] + 1
         /\ (pc[ch] = "idle" /\ pc'[ch] # "idle") => pending[ch] = 1
         /\ queuedCalls'[ch] = queuedCalls[ch] + 1
              => IsBrightnessSetStep /\ pending'[ch] = 1
WorkerNotStopped ==
    \A ch \in Leds : (pending[ch] > 0 /\ pc[ch] = "idle") => ENABLED LedWork(ch)

\* C11: a failed bus transfer in cat3626_setled(ch) leaves present_reg_value
\* of every LED as it was and queues no work item, neither at the failing
\* transfer nor when that setled returns; a work item gets queued only by a
\* brightness_set call on its LED, a worker starts a setled only for a queued
\* work item, and a queued work item of an idle worker can always start,
\* whatever failed before; every brightness_set call on LED ch leaves the work
\* item of ch queued, also when it stores the value that was already there.
C11_NoRetry == []WorkerNotStopped /\ [][NoRetryStep]_vars

\* a setled of LED ch with a failed transfer has returned, brightness_set was
\* then called on ch with the value it already held, and the worker of ch runs
\* the setled of that call to its end
C11_Witness ==
    \E ch \in Leds :
        /\ afterErr = <<ch, 2>>
        /\ calls = 1
        /\ level[ch] = 0
        /\ brightness[ch] = 0
        /\ pc[ch] = "unlock"
        /\ err[ch] = "none"

SecondRun(e) ==
    /\ pc[e] \in {"write", "cur", "unlock"}
    /\ quiet = <<ChanOf(e), 2>>
SecondRunSkipsEnable ==
    \A e \in Executors : SecondRun(e) => toset[e] = reg[e] /\ reg[e] = enable
SecondRunStep == quiet[2] = 2 => UNCHANGED <<enable, cur>>

\* C12: when cat3626_setled(ch) runs twice in a row, with no brightness_set
\* call on ch since the first run read the enable register, no other setled
\* between the two and no bus error, the second run finds toset equal to reg,
\* so it does not write the enable register, and no step taken once the second
\* run has read the enable register changes the enable register or any of the
\* three current registers.
C12_Idempotent == []SecondRunSkipsEnable /\ [][SecondRunStep]_vars

\* the second of two such runs of a LED with a nonzero level is about to
\* return, having written the level to the current register again
C12_Witness ==
    \E e \in Executors :
        /\ SecondRun(e)
        /\ pc[e] = "unlock"
        /\ level[ChanOf(e)] > 0
        /\ wrote[e] = level[ChanOf(e)]
        /\ cur[ChanOf(e) \div 2] = level[ChanOf(e)]
        /\ EnableBitOn(ChanOf(e))

Initialised(i) ==
    \/ i < cfgI
    \/ i = cfgI /\ cfgPc \in {"setled", "exit", "failed"}

\* C13: from the end of the pairing loop of cat3626_configure on, in every
\* state and whatever brightness_set, setled, the configure loop, its failure
\* path or remove have done, LEDs 2k and 2k+1 have i2c_reg = k and are each
\* other's partner for k = 0, 1, 2; every LED that is or ever was registered
\* has id equal to its index, and so has every LED once configure succeeded.
C13_Pairing ==
    cfgPc # "pair" =>
        /\ \A k \in Pairs :
             /\ i2c_reg[2 * k] = k
             /\ i2c_reg[2 * k + 1] = k
             /\ partner[2 * k] = 2 * k + 1
             /\ partner[2 * k + 1] = 2 * k
        /\ \A i \in Leds : (registered[i] \/ Initialised(i)) => id[i] = i
        /\ cfgPc = "done" => \A i \in Leds : id[i] = i

\* configure succeeded, brightness_set was called, a setled wrote the current
\* register of the last pair and remove has run
C13_Witness ==
    /\ cfgPc = "done"
    /\ rmPc # "none"
    /\ calls = MaxCalls
    /\ lastNz[2] # NONE
    /\ Quiescent

SetledsInFlight(ch) == {e \in Executors : InFlight(e) /\ ChanOf(e) = ch}

\* C14: for every LED ch at most one execution of cat3626_setled(ch) is in
\* flight (entered and not yet returned, waiting for update_lock or holding
\* it), counting the executions of the work item of ch and the call that
\* cat3626_configure makes at line 198.
C14_SingleFlight == \A ch \in Leds : Cardinality(SetledsInFlight(ch)) <= 1

Undisturbed == calls = 0 /\ busErrs = 0

\* C15: cat3626_configure calls cat3626_setled(i) itself, after LED i was
\* registered and before LED i+1 is: its setled is in flight only for the
\* registered LED cfgI, no LED beyond cfgI is registered, and with no bus
\* error and no brightness_set call so far every LED below cfgI has
\* present_reg_value 0 and its enable bit clear; so when configure returns 0
\* in such a run, all six levels are 0 and bits 0..5 of the enable register
\* are 0, whatever the register held when the driver was bound.
C15_InitialApply ==
    /\ InFlight(CFG) => cfgPc = "setled" /\ registered[cfgI]
    /\ \A i \in Leds :
         /\ registered[i] => i < cfgI \/ (i = cfgI /\ cfgPc = "setled")
         /\ (Undisturbed /\ i < cfgI) => level[i] = 0 /\ ~EnableBitOn(i)
    /\ (Undisturbed /\ cfgPc = "done")
         => /\ cfgI = NUM_LEDS
            /\ \A i \in Leds : level[i] = 0
            /\ enable % Pow2(NUM_LEDS) = 0

\* configure has returned 0 in a run without bus error and brightness_set
\* call: the enable register, 21 or 42 at the start, is 0
C15_Witness ==
    /\ Undisturbed
    /\ cfgPc = "done"
    /\ rmPc = "none"
    /\ \A i \in Leds : registered[i] /\ level[i] = 0
    /\ enable = 0

Off(ch) == level[ch] = 0 /\ ~EnableBitOn(ch)
On(ch) ==
    /\ level[ch] > 0
    /\ EnableBitOn(ch)
    /\ cur[i2c_reg[ch]] = level[ch]

\* C16: in every quiescent state of the configured chip reached without bus
\* error, every LED is either OFF (present_reg_value 0 and enable bit clear)
\* or ON (present_reg_value > 0, enable bit set and current register ch >> 1
\* equal to present_reg_value), whatever brightness_set calls were made on
\* the LED and on its partner.
C16_StateMachine ==
    (Quiescent /\ cfgPc = "done" /\ busErrs = 0)
        => \A ch \in Leds : Off(ch) \/ On(ch)

\* C18: one execution of cat3626_setled takes the decision on the enable bit
\* (line 112), the decision to write the current register (line 124) and the
\* value written (line 125) from one value of present_reg_value, also when
\* brightness_set runs concurrently: it never reaches the write of the current
\* register after having computed the enable byte from level 0, it never
\* returns without that write after having computed the enable byte from a
\* nonzero level, and the value it writes is the level it read at line 112.
C18_SingleSnapshot ==
    \A e \in Executors :
        /\ pc[e] = "cur" => seen[e] > 0
        /\ (pc[e] = "unlock" /\ err[e] = "none" /\ seen[e] > 0)
               => wrote[e] # NONE
        /\ wrote[e] # NONE => wrote[e] = seen[e]

SeesZeroWritesNoCurrent ==
    \A e \in Executors : seen[e] = 0 => pc[e] # "cur" /\ wrote[e] = NONE
SetledFrameStep ==
    \A e \in Executors :
        (InFlight(e) /\ pc'[e] # pc[e]) =>
            /\ \A b \in 0..7 : b # ChanOf(e) => Bit(enable', b) = Bit(enable, b)
            /\ \A k \in Pairs : k # ChanOf(e) \div 2 => cur'[k] = cur[k]
            /\ seen[e] = 0 => cur' = cur

\* C17: an execution of cat3626_setled(ch) that sees present_reg_value 0
\* writes no current register, and no execution changes a bit of the enable
\* register other than bit ch or a current register other than ch >> 1; so
\* with LED 2k on at level L, a setled of LED 2k+1 at level 0 leaves enable
\* bit 2k set and current register k at L.
C17_SharedIndependence ==
    []SeesZeroWritesNoCurrent /\ [][SetledFrameStep]_vars

LockHeldInCritical ==
    /\ \A e \in Executors : InCritical(e) <=> update_lock = e
    /\ \A e \in Executors : pc[e] = "idle" => update_lock # e
NoDeadlock ==
    /\ \A e \in Executors :
         /\ InCritical(e) => ENABLED Setled(e)
         /\ pc[e] = "lock" =>
              \/ ENABLED Setled(e)
              \/ \E h \in Executors : update_lock = h /\ ENABLED Setled(h)
    /\ \A ch \in Leds : (pending[ch] > 0 /\ pc[ch] = "idle") => ENABLED LedWork(ch)
    /\ cfgPc = "pair" => ENABLED CfgPair
    /\ cfgPc = "reg" => ENABLED CfgRegister
    /\ cfgPc = "setled" => InFlight(CFG) \/ ENABLED CfgLoop
    /\ cfgPc = "exit" => ENABLED CfgExit
DequeueStep ==
    \A ch \in Leds :
        pending'[ch] < pending[ch]
            => \/ pc[ch] = "idle" /\ pc'[ch] = "lock"
               \/ ch \in destroyed' /\ destroyed' # destroyed

\* C19: update_lock is held exactly by the cat3626_setled that is between its
\* mutex_lock and its return, so every setled that took the lock has released
\* it when it returns, also after failed bus transfers; no state is a
\* deadlock: a setled waiting for the lock finds it free or held by a setled
\* that can take its next step, a setled holding it can take its next step, a
\* queued work item of an idle worker can start and configure can continue; a
\* queued work item leaves the queue only by starting to run or by being
\* cancelled; and under fair scheduling every behaviour ends with no work item
\* queued and no setled in flight, that is, every deferred setled that was not
\* cancelled has run to completion.
C19_LockAndProgress ==
    /\ [](LockHeldInCritical /\ NoDeadlock)
    /\ [][DequeueStep]_vars
    /\ <>[]Quiescent

\* a setled with a failed bus transfer has returned, the brightness_set call
\* was made, and the lock is free with nothing queued or running
C19_Witness ==
    /\ afterErr[2] >= 1
    /\ busErrs = MaxBusErrors
    /\ calls = MaxBusCalls
    /\ update_lock = FREE
    /\ Quiescent

DestroyStep ==
    \A n \in destroyed' \ destroyed : n \in Leds /\ registered[n]

\* C20: every slot that cat3626_destroy_devices unregisters and cancels has
\* an index in 0..5 and belongs to a LED that is registered at that moment,
\* when called from cat3626_remove and when called from the failure path of
\* cat3626_configure.
C20_IndexBounds == [][DestroyStep]_vars
====
